---------------------------- MODULE Spec2Model ----------------------------
(***************************************************************************)
(* A model of jsonschema2go (src/jsonschema.go): a Job loads JSON schema   *)
(* documents, populates the schema graph (postPopulate), resolves $ref,    *)
(* merges parent attributes into combinator branches (MergeIn), names the  *)
(* used schemas (add / SetTypeName) and generates go types                 *)
(* (generateGoTypes / typeDefinition).                                     *)
(*                                                                         *)
(* Strings the code slices or concatenates (URLs, $ref, type names) are    *)
(* sequences of tokens, so that concatenation is \o and strings.Index is   *)
(* a search.  Pointers are indices into the heaps `nodes', `props',        *)
(* `lists'; 0 is the nil pointer.  A *string is <<>> (nil) or <<s>>.       *)
(***************************************************************************)
EXTENDS Integers, Sequences, FiniteSets, TLC

(***************************************************************************)
(* Bounds of the model.                                                    *)
(***************************************************************************)
\* longest list of root URLs given to a job
MaxURLs == 2
\* deepest stack of postPopulate / cacheJsonSchema calls before the run
\* counts as a stack overflow
MaxDepth == 14
\* deepest recursion of typeDefinition, TargetSchema, SetTypeName and
\* getTypeName before the run counts as a stack overflow
MaxNesting == 6

(***************************************************************************)
(* Strings.                                                                *)
(***************************************************************************)
Range(s) == {s[i] : i \in 1..Len(s)}

\* strings.ContainsRune(url, '#')
ContainsHash(url) == "#" \in Range(url)

\* strings.Index(url, "#"), 1-based; 0 when absent
IndexHash(url) ==
  IF ContainsHash(url)
  THEN CHOOSE i \in 1..Len(url) : url[i] = "#" /\ \A j \in 1..(i-1) : url[j] # "#"
  ELSE 0

\* Ensure url contains "#" by adding it to end if needed
sanitizeURL(url) == IF ContainsHash(url) THEN url ELSE Append(url, "#")

\* strings.HasPrefix(ref, "#")
HasPrefixHash(ref) == Len(ref) > 0 /\ ref[1] = "#"

\* strconv.Itoa for the list indices that occur
Itoa(i) == <<"0", "1", "2", "3", "4", "5", "6", "7", "8", "9">>[i + 1]

\* sort.Strings order of the name tokens that occur (byte order; the
\* package tcclient sorts by its import path github.com/...)
NameOrder == <<" entry", "0", "1", "2", "3", "4", "5", "6", "7", "8", "9", "A", "B", "Child", "D", "Entry",
               "P", "Q", "R", "Result", "T", "Var", "X", "Y",
               "a", "b", "child", "d", "encoding/json", "errors", "tcclient",
               "p", "q", "r", "result", "t", "var", "x", "y">>

Rank(tok) == CHOOSE i \in 1..Len(NameOrder) : NameOrder[i] = tok

RECURSIVE StrLess(_, _)
\* a < b for strings given as token sequences
StrLess(a, b) ==
  IF Len(a) = 0 THEN Len(b) > 0
  ELSE IF Len(b) = 0 THEN FALSE
  ELSE IF a[1] = b[1] THEN StrLess(Tail(a), Tail(b))
  ELSE Rank(a[1]) < Rank(b[1])

RECURSIVE SortTokens(_)
\* sort.Strings on a set of single-token strings
SortTokens(S) ==
  IF S = {} THEN <<>>
  ELSE LET m == CHOOSE t \in S : \A u \in S : Rank(t) <= Rank(u)
       IN <<m>> \o SortTokens(S \ {m})

RECURSIVE SortStrings(_)
\* sort.Strings on a sequence of token-sequence strings (duplicates kept)
SortStrings(s) ==
  IF Len(s) = 0 THEN <<>>
  ELSE LET i == CHOOSE k \in 1..Len(s) :
                  \A l \in 1..Len(s) : ~StrLess(s[l], s[k])
           rest == SubSeq(s, 1, i - 1) \o SubSeq(s, i + 1, Len(s))
       IN <<s[i]>> \o SortStrings(rest)


(***************************************************************************)
(* The heap: JsonSubSchema, Properties and Items objects.                  *)
(***************************************************************************)
\* the struct fields of JsonSubSchema of reflect.Ptr kind, in declaration
\* order (src/jsonschema.go:117-172), with the kind of object pointed to
PtrFields == <<"AdditionalProperties", "AllOf", "AnyOf", "Definitions",
               "Description", "Format", "ID", "Items", "OneOf", "Properties",
               "Ref", "Title", "Type", "RefSubSchema">>

PtrKind == [AdditionalProperties |-> "ap", AllOf |-> "list", AnyOf |-> "list",
            Definitions |-> "props", Description |-> "str", Format |-> "str",
            ID |-> "str", Items |-> "node", OneOf |-> "list",
            Properties |-> "props", Ref |-> "str", Title |-> "str",
            Type |-> "str", RefSubSchema |-> "node"]

IsNil(f, v) ==
  CASE PtrKind[f] = "str" -> v = <<>>
    [] PtrKind[f] = "ap" -> ~v.set
    [] OTHER -> v = 0

\* an *AdditionalProperties: nil, a boolean, or a schema
APNil == [set |-> FALSE, Boolean |-> <<>>, Properties |-> 0]
APBool(b) == [set |-> TRUE, Boolean |-> <<b>>, Properties |-> 0]
APSchema(n) == [set |-> TRUE, Boolean |-> <<>>, Properties |-> n]

\* new(JsonSubSchema): the empty schema {}
Blank == [AdditionalProperties |-> APNil, AllOf |-> 0, AnyOf |-> 0,
          Definitions |-> 0, Dependencies |-> <<>>, Description |-> <<>>,
          Enum |-> <<>>, Format |-> <<>>, ID |-> <<>>, Items |-> 0,
          OneOf |-> 0, Properties |-> 0, Ref |-> <<>>,
          Required |-> <<>>, Title |-> <<>>, Type |-> <<>>,
          TypeName |-> <<>>, PropertyName |-> <<>>, SourceURL |-> <<>>,
          RefSubSchema |-> 0, IsRequired |-> FALSE]

\* a Properties object as (p *Properties) UnmarshalJSON leaves it
PropertiesOf(map) == [Properties |-> map, MemberNames |-> <<>>,
                      SortedPropertyNames |-> <<>>, SourceURL |-> <<>>]

\* an Items object as (i *Items) UnmarshalJSON leaves it
ItemsOf(list) == [Items |-> list, SourceURL |-> <<>>]

(***************************************************************************)
(* Input documents, as json.Unmarshal builds them: the JsonSubSchema,      *)
(* Properties and Items objects of a document, pointers being indices      *)
(* into the document's own three tables; the root is node 1.               *)
(***************************************************************************)
StringSchema == [Blank EXCEPT !.Type = <<"string">>]
RefSchema(ref) == [Blank EXCEPT !.Ref = <<ref>>]
\* {"type": "object", "additionalProperties": false, "properties": p}
ClosedObject(p) == [Blank EXCEPT !.Type = <<"object">>,
                                 !.AdditionalProperties = APBool(FALSE),
                                 !.Properties = p]

RefLibA == <<"lib", "#", "/definitions", "/", "a">>
RefLibB == <<"lib", "#", "/definitions", "/", "b">>
RefLocalT == <<"#", "/definitions", "/", "t">>

\* {type: object, additionalProperties: false,
\*  properties: {child: {$ref: "#"}}}
DocTree == [nodes |-> <<ClosedObject(1), RefSchema(<<"#">>)>>,
            props |-> <<PropertiesOf([child |-> 2])>>,
            lists |-> <<>>]

\* {type: array, items: {$ref: "#"}}
DocArr == [nodes |-> <<[Blank EXCEPT !.Type = <<"array">>, !.Items = 2],
                       RefSchema(<<"#">>)>>,
           props |-> <<>>, lists |-> <<>>]

\* {type: object, definitions: {
\*    a: {type: object, additionalProperties: false, properties: {x: {type: string}}},
\*    b: {$ref: "#/definitions/a"}}}
DocLib == [nodes |-> <<[Blank EXCEPT !.Type = <<"object">>, !.Definitions = 1],
                       ClosedObject(2), StringSchema,
                       RefSchema(<<"#", "/definitions", "/", "a">>)>>,
           props |-> <<PropertiesOf([a |-> 2, b |-> 4]), PropertiesOf([x |-> 3])>>,
           lists |-> <<>>]

\* {type: object, additionalProperties: false, properties: {
\*    p: {$ref: "lib#/definitions/a"}, q: {$ref: "lib#/definitions/b"}}}
DocU1 == [nodes |-> <<ClosedObject(1), RefSchema(RefLibA), RefSchema(RefLibB)>>,
          props |-> <<PropertiesOf([p |-> 2, q |-> 3])>>,
          lists |-> <<>>]

\* {type: object, additionalProperties: false, properties: {
\*    p: {$ref: "lib#/definitions/a"}, q: {$ref: "lib"},
\*    r: {$ref: "lib#/definitions/a"}}}
DocU2 == [nodes |-> <<ClosedObject(1), RefSchema(RefLibA), RefSchema(<<"lib">>),
                      RefSchema(RefLibA)>>,
          props |-> <<PropertiesOf([p |-> 2, q |-> 3, r |-> 4])>>,
          lists |-> <<>>]

\* {type: object, additionalProperties: false, properties: {
\*    p: {$ref: "lib"}, q: {$ref: "lib#"}}}
DocU3 == [nodes |-> <<ClosedObject(1), RefSchema(<<"lib">>), RefSchema(<<"lib", "#">>)>>,
          props |-> <<PropertiesOf([p |-> 2, q |-> 3])>>,
          lists |-> <<>>]

\* {type: object,
\*  additionalProperties: {$ref: "#/definitions/t", type: string}}
DocAp == [nodes |-> <<[Blank EXCEPT !.Type = <<"object">>,
                                    !.AdditionalProperties = APSchema(2)],
                      [RefSchema(RefLocalT) EXCEPT !.Type = <<"string">>]>>,
          props |-> <<>>, lists |-> <<>>]

\* {type: object, additionalProperties: false,
\*  properties: {p: {$ref: "#/definitions/t"}}}
DocBad == [nodes |-> <<ClosedObject(1), RefSchema(RefLocalT)>>,
           props |-> <<PropertiesOf([p |-> 2])>>,
           lists |-> <<>>]

\* {type: object, additionalProperties: false, properties: {p: {$ref: "nodoc"}}}
\* where nodoc cannot be fetched
DocExt == [nodes |-> <<ClosedObject(1), RefSchema(<<"nodoc">>)>>,
           props |-> <<PropertiesOf([p |-> 2])>>,
           lists |-> <<>>]

\* {title: "Result", type: object, additionalProperties: false,
\*  properties: {a: {type: string}}}
DocR1 == [nodes |-> <<[ClosedObject(1) EXCEPT !.Title = <<"Result">>], StringSchema>>,
          props |-> <<PropertiesOf([a |-> 2])>>,
          lists |-> <<>>]

\* {title: "result", type: array, items: {title: "Result", type: object,
\*  additionalProperties: false, properties: {a: {type: string}}}}
DocR2 == [nodes |-> <<[Blank EXCEPT !.Title = <<"result">>, !.Type = <<"array">>,
                                    !.Items = 2],
                      [ClosedObject(1) EXCEPT !.Title = <<"Result">>],
                      StringSchema>>,
          props |-> <<PropertiesOf([a |-> 3])>>,
          lists |-> <<>>]

\* {$ref: "lib", definitions: {d: {allOf: [{$ref: "#"}]}}}
DocAlias == [nodes |-> <<[Blank EXCEPT !.Ref = <<<<"lib">>>>, !.Definitions = 1],
                         [Blank EXCEPT !.AllOf = 1],
                         RefSchema(<<"#">>)>>,
             props |-> <<PropertiesOf([d |-> 2])>>,
             lists |-> <<ItemsOf(<<3>>)>>]

\* {definitions: {d: {$ref: "#"}}, properties: {x: {type: string}},
\*  items: {items: {properties: {y: {type: string}}}, allOf: [{}]}}
DocCopy == [nodes |-> <<[Blank EXCEPT !.Definitions = 1, !.Properties = 2, !.Items = 4],
                        RefSchema(<<"#">>), StringSchema,
                        [Blank EXCEPT !.Items = 5, !.AllOf = 1],
                        [Blank EXCEPT !.Properties = 3],
                        StringSchema, Blank>>,
            props |-> <<PropertiesOf([d |-> 2]), PropertiesOf([x |-> 3]),
                        PropertiesOf([y |-> 6])>>,
            lists |-> <<ItemsOf(<<7>>)>>]

\* {description: "P", type: object, properties: {a: {type: string}},
\*  allOf: [{}, {description: "B", properties: {b: {type: string}}}]}
DocMerge == [nodes |-> <<[Blank EXCEPT !.Description = <<"P">>, !.Type = <<"object">>,
                                       !.Properties = 1, !.AllOf = 1],
                         StringSchema, Blank,
                         [Blank EXCEPT !.Description = <<"B">>, !.Properties = 2],
                         StringSchema>>,
             props |-> <<PropertiesOf([a |-> 2]), PropertiesOf([b |-> 5])>>,
             lists |-> <<ItemsOf(<<3, 4>>)>>]

\* {allOf: [{}], anyOf: [{}]}
DocTwo == [nodes |-> <<[Blank EXCEPT !.AllOf = 1, !.AnyOf = 2], Blank, Blank>>,
           props |-> <<>>,
           lists |-> <<ItemsOf(<<2>>), ItemsOf(<<3>>)>>]

\* {allOf: [{}, {title: "t"}], anyOf: [{allOf: [{$ref: "#"}]}]}
DocLate == [nodes |-> <<[Blank EXCEPT !.AllOf = 1, !.AnyOf = 2],
                        Blank, [Blank EXCEPT !.Title = <<"t">>],
                        [Blank EXCEPT !.AllOf = 3], RefSchema(<<"#">>)>>,
            props |-> <<>>,
            lists |-> <<ItemsOf(<<2, 3>>), ItemsOf(<<4>>), ItemsOf(<<5>>)>>]

\* {enum: ["e"], required: ["a"], dependencies: {a: {type: string}},
\*  properties: {a: {type: string}}, allOf: [{}]}
DocEnum == [nodes |-> <<[Blank EXCEPT !.Enum = <<"e">>, !.Required = <<"a">>,
                                      !.Dependencies = [a |-> 3],
                                      !.Properties = 1, !.AllOf = 1],
                        StringSchema, StringSchema, Blank>>,
            props |-> <<PropertiesOf([a |-> 2])>>,
            lists |-> <<ItemsOf(<<4>>)>>]

\* {type: object, additionalProperties: false, required: ["a"],
\*  properties: {a: {type: string}, b: {type: string}},
\*  allOf: [{required: ["b"]}]}
DocReq == [nodes |-> <<[ClosedObject(1) EXCEPT !.Required = <<"a">>, !.AllOf = 1],
                       StringSchema, StringSchema,
                       [Blank EXCEPT !.Required = <<"b">>]>>,
           props |-> <<PropertiesOf([a |-> 2, b |-> 3])>>,
           lists |-> <<ItemsOf(<<4>>)>>]

\* {type: object, required: ["a"]}
DocNoProps == [nodes |-> <<[Blank EXCEPT !.Type = <<"object">>, !.Required = <<"a">>]>>,
               props |-> <<>>, lists |-> <<>>]

\* {type: object, additionalProperties: false, required: ["b"],
\*  properties: {a: {type: string}}}
DocMissing == [nodes |-> <<[ClosedObject(1) EXCEPT !.Required = <<"b">>], StringSchema>>,
               props |-> <<PropertiesOf([a |-> 2])>>,
               lists |-> <<>>]

\* {type: object, additionalProperties: true, properties: {
\*    a: {type: string},
\*    b: {type: object, additionalProperties: {type: string},
\*        properties: {x: {type: string}}},
\*    d: {type: object, properties: {y: {type: string}}},
\*    p: {type: object, additionalProperties: {type: string}},
\*    q: {type: object, additionalProperties: false,
\*        properties: {x: {type: string}}}}}
DocOpen == [nodes |-> <<[Blank EXCEPT !.Type = <<"object">>, !.Properties = 1,
                                      !.AdditionalProperties = APBool(TRUE)],
                        StringSchema,
                        [Blank EXCEPT !.Type = <<"object">>, !.Properties = 2,
                                      !.AdditionalProperties = APSchema(5)],
                        [Blank EXCEPT !.Type = <<"object">>, !.Properties = 3],
                        StringSchema, StringSchema, StringSchema,
                        [Blank EXCEPT !.Type = <<"object">>,
                                      !.AdditionalProperties = APSchema(9)],
                        StringSchema, ClosedObject(4), StringSchema>>,
            props |-> <<PropertiesOf([a |-> 2, b |-> 3, d |-> 4, p |-> 8, q |-> 10]),
                        PropertiesOf([x |-> 6]), PropertiesOf([y |-> 7]),
                        PropertiesOf([x |-> 11])>>,
            lists |-> <<>>]

\* {type: object, additionalProperties: {type: object}}
DocRaw == [nodes |-> <<[Blank EXCEPT !.Type = <<"object">>,
                                     !.AdditionalProperties = APSchema(2)],
                       [Blank EXCEPT !.Type = <<"object">>]>>,
           props |-> <<>>, lists |-> <<>>]

\* {type: object, additionalProperties: false, properties: {
\*    p: {type: object, additionalProperties: false},
\*    q: {type: object, additionalProperties: {type: object,
\*        additionalProperties: false, properties: {x: {type: string}}}}}}
DocNest == [nodes |-> <<ClosedObject(1),
                        [Blank EXCEPT !.Type = <<"object">>,
                                      !.AdditionalProperties = APBool(FALSE)],
                        [Blank EXCEPT !.Type = <<"object">>,
                                      !.AdditionalProperties = APSchema(4)],
                        ClosedObject(2), StringSchema>>,
            props |-> <<PropertiesOf([p |-> 2, q |-> 3]), PropertiesOf([x |-> 5])>>,
            lists |-> <<>>]

\* {type: object, additionalProperties: false, properties: {
\*    p: {$ref: "enum"}, q: {$ref: "nest"}}}
DocU4 == [nodes |-> <<ClosedObject(1), RefSchema(<<"enum">>), RefSchema(<<"nest">>)>>,
          props |-> <<PropertiesOf([p |-> 2, q |-> 3])>>,
          lists |-> <<>>]

\* {properties: {a: {allOf: [{}]}}, allOf: [{}]}
DocShare == [nodes |-> <<[Blank EXCEPT !.Properties = 1, !.AllOf = 1],
                         [Blank EXCEPT !.AllOf = 2], Blank, Blank>>,
             props |-> <<PropertiesOf([a |-> 2])>>,
             lists |-> <<ItemsOf(<<4>>), ItemsOf(<<3>>)>>]

\* {definitions: {a: {$ref: "#/definitions/b"}, b: {type: string}}}
DocFwd == [nodes |-> <<[Blank EXCEPT !.Definitions = 1],
                       RefSchema(<<"#", "/definitions", "/", "b">>), StringSchema>>,
           props |-> <<PropertiesOf([a |-> 2, b |-> 3])>>,
           lists |-> <<>>]

\* what the Loader serves, by document URL (the part before "#")
Documents == [tree |-> DocTree, arr |-> DocArr, lib |-> DocLib, u1 |-> DocU1,
              u2 |-> DocU2, u3 |-> DocU3, ap |-> DocAp, bad |-> DocBad,
              ext |-> DocExt, r1 |-> DocR1, r2 |-> DocR2, alias |-> DocAlias,
              copy |-> DocCopy, merge |-> DocMerge, two |-> DocTwo,
              late |-> DocLate, enum |-> DocEnum, req |-> DocReq,
              noprops |-> DocNoProps, missing |-> DocMissing, open |-> DocOpen,
              raw |-> DocRaw, nest |-> DocNest, u4 |-> DocU4,
              share |-> DocShare, fwd |-> DocFwd]

\* the root URLs of a job are drawn from one of these sets
URLGroups == {{<<"lib">>, <<"u1">>, <<"u2">>},
              {<<"lib", "#">>, RefLibA, <<"u3">>},
              {<<"tree">>, <<"arr">>, <<"merge">>},
              {<<"r1">>, <<"r2">>},
              {<<"copy">>, <<"alias">>},
              {<<"ap">>, <<"bad">>, <<"ext">>},
              {<<"two">>, <<"late">>},
              {<<"enum">>, <<"u4">>},
              {<<"req">>, <<"noprops">>, <<"missing">>},
              {<<"open">>, <<"raw">>},
              {<<"nest">>, <<"share">>, <<"fwd">>}}

Offset(ptr, by) == IF ptr = 0 THEN 0 ELSE ptr + by

\* json.Unmarshal(j, subSchema): fresh objects for every subschema of document
\* doc, appended to the heaps of m
Unmarshal(m, doc) ==
  LET n == Len(m.nodes)
      p == Len(m.props)
      l == Len(m.lists)
      node(i) == [doc.nodes[i] EXCEPT
                    !.AdditionalProperties.Properties = Offset(@, n),
                    !.AllOf = Offset(@, l), !.AnyOf = Offset(@, l),
                    !.OneOf = Offset(@, l), !.Definitions = Offset(@, p),
                    !.Properties = Offset(@, p), !.Items = Offset(@, n),
                    !.Dependencies = [k \in DOMAIN @ |-> @[k] + n]]
      prop(i) == [doc.props[i] EXCEPT
                    !.Properties = [k \in DOMAIN @ |-> @[k] + n]]
      list(i) == [doc.lists[i] EXCEPT
                    !.Items = [k \in DOMAIN @ |-> @[k] + n]]
  IN [m EXCEPT !.nodes = @ \o [i \in 1..Len(doc.nodes) |-> node(i)],
               !.props = @ \o [i \in 1..Len(doc.props) |-> prop(i)],
               !.lists = @ \o [i \in 1..Len(doc.lists) |-> list(i)]]

(***************************************************************************)
(* The memory of a job: the heaps, the SchemaSet and the blacklist.        *)
(* crash is "" or the way the run died: "overflow" (unbounded recursion)   *)
(* or "panic".                                                             *)
(***************************************************************************)
Put(f, k, v) == [x \in DOMAIN f \cup {k} |-> IF x = k THEN v ELSE f[x]]

Crash(m, how) == [m EXCEPT !.crash = IF @ = "" THEN how ELSE @]

RECURSIVE TargetSchema(_, _, _)
\* (subSchema *JsonSubSchema) TargetSchema: the end of the RefSubSchema chain;
\* -1 when the chain does not end
TargetSchema(ns, n, d) ==
  IF d = 0 THEN -1
  ELSE IF ns[n].RefSubSchema # 0 THEN TargetSchema(ns, ns[n].RefSubSchema, d - 1)
  ELSE n

RECURSIVE TypeNameRaw(_, _, _)
\* (subSchema *JsonSubSchema) TypeNameRaw; every title, property name and
\* description of the documents is shorter than 40
TypeNameRaw(ns, n, d) ==
  IF d = 0 THEN <<>>
  ELSE IF ns[n].RefSubSchema # 0 THEN TypeNameRaw(ns, ns[n].RefSubSchema, d - 1)
  ELSE IF ns[n].Title # <<>> /\ ns[n].Title[1] # "" THEN ns[n].Title
  ELSE IF ns[n].PropertyName # <<>> THEN ns[n].PropertyName
  ELSE IF ns[n].Description # <<>> /\ ns[n].Description[1] # "" THEN ns[n].Description
  ELSE <<"var">>

\* the word-wise capitalisation of text.GoIdentifierFrom (exported names)
Capitalise(tok) ==
  CASE tok = "a" -> "A" [] tok = "b" -> "B" [] tok = "child" -> "Child"
    [] tok = "d" -> "D" [] tok = " entry" -> "Entry" [] tok = "p" -> "P"
    [] tok = "q" -> "Q" [] tok = "r" -> "R" [] tok = "result" -> "Result"
    [] tok = "t" -> "T" [] tok = "var" -> "Var" [] tok = "x" -> "X"
    [] tok = "y" -> "Y" [] OTHER -> tok

RECURSIVE CapitaliseWords(_)
CapitaliseWords(name) ==
  IF Len(name) = 0 THEN <<>>
  ELSE <<Capitalise(name[1])>> \o CapitaliseWords(Tail(name))

RECURSIVE FirstFree(_, _, _)
\* the first of base1, base2, ... that is not in the blacklist
FirstFree(base, k, blacklist) ==
  IF Append(base, Itoa(k)) \notin blacklist THEN Append(base, Itoa(k))
  ELSE FirstFree(base, k + 1, blacklist)

\* a NameGenerator: an identifier derived from name that is not in the
\* blacklist, recorded in the blacklist
GoIdentifierFrom(name, blacklist) ==
  LET base == CapitaliseWords(name)
      identifier == IF base \notin blacklist THEN base
                    ELSE FirstFree(base, 1, blacklist)
  IN [identifier |-> identifier, blacklist |-> blacklist \cup {identifier}]

RECURSIVE SetTypeName(_, _, _)
\* (job *Job) SetTypeName(subSchema, blacklist), blacklist being the job's
SetTypeName(m, n, d) ==
  IF d = 0 THEN Crash(m, "overflow")
  ELSE IF m.nodes[n].RefSubSchema # 0 THEN SetTypeName(m, m.nodes[n].RefSubSchema, d - 1)
  ELSE IF m.nodes[n].TypeName # <<>> THEN m
  ELSE
    LET g == GoIdentifierFrom(TypeNameRaw(m.nodes, n, MaxNesting), m.blacklist)
        m1 == [m EXCEPT !.nodes[n].TypeName = g.identifier,
                        !.blacklist = g.blacklist]
        items == m.nodes[n].Items
        t == TargetSchema(m1.nodes, items, MaxNesting)
    IN IF items = 0 THEN m1
       ELSE IF t = -1 THEN Crash(m1, "overflow")
       ELSE SetTypeName(
              [m1 EXCEPT !.nodes[t].PropertyName =
                           m1.nodes[n].PropertyName \o <<" entry">>],
              items, d - 1)

\* (job *Job) add(subSchema); -1 is a subSchema whose computation did not end
add(m, n) ==
  IF n = -1 THEN Crash(m, "overflow")
  ELSE IF m.nodes[n].SourceURL \in DOMAIN m.used THEN m
  ELSE LET m1 == SetTypeName([m EXCEPT !.used = Put(@, m.nodes[n].SourceURL, n)],
                             n, MaxNesting)
       IN [m1 EXCEPT !.TypeNames = @ \cup {m1.nodes[n].TypeName}]

(***************************************************************************)
(* MergeIn.                                                                *)
(***************************************************************************)
\* reflect.New + Set: a new object holding a copy of the value pointed to
\* (a top-level copy: pointers, maps and slices inside are shared)
CopyValue(m, f, v) ==
  CASE PtrKind[f] = "node" ->
         [m |-> [m EXCEPT !.nodes = Append(@, m.nodes[v])], v |-> Len(m.nodes) + 1]
    [] PtrKind[f] = "props" ->
         [m |-> [m EXCEPT !.props = Append(@, m.props[v])], v |-> Len(m.props) + 1]
    [] PtrKind[f] = "list" ->
         [m |-> [m EXCEPT !.lists = Append(@, m.lists[v])], v |-> Len(m.lists) + 1]
    [] OTHER -> [m |-> m, v |-> v]

RECURSIVE MergeFieldOverwriting(_, _, _, _)
\* MergeField without the test that the destination is nil
MergeFieldOverwriting(m, f, n, items) ==
  IF Len(items) = 0 THEN m
  ELSE IF IsNil(f, m.nodes[n][f]) THEN MergeFieldOverwriting(m, f, n, Tail(items))
  ELSE MergeFieldOverwriting(
         [CopyValue(m, f, m.nodes[n][f]).m EXCEPT
            !.nodes[items[1]][f] = CopyValue(m, f, m.nodes[n][f]).v],
         f, n, Tail(items))

RECURSIVE MergeField(_, _, _, _)
\* the inner loop of MergeIn: field f of subSchema n into every item whose
\* field f is nil
MergeField(m, f, n, items) ==
  IF Len(items) = 0 THEN m
  ELSE LET item == items[1]
           source == m.nodes[n][f]
           c == CopyValue(m, f, source)
       IN IF IsNil(f, m.nodes[item][f]) /\ ~IsNil(f, source)
          THEN MergeField([c.m EXCEPT !.nodes[item][f] = c.v], f, n, Tail(items))
          ELSE MergeField(m, f, n, Tail(items))

RECURSIVE MergeFields(_, _, _, _, _)
\* the outer loop of MergeIn over the struct fields: pointer fields that are
\* not skipped and are set in subSchema n
MergeFields(m, fields, n, items, skipFields) ==
  IF Len(fields) = 0 THEN m
  ELSE IF fields[1] \in skipFields \/ IsNil(fields[1], m.nodes[n][fields[1]])
       THEN MergeFields(m, Tail(fields), n, items, skipFields)
       ELSE MergeFields(MergeField(m, fields[1], n, items),
                        Tail(fields), n, items, skipFields)

\* (items *Items) MergeIn(subSchema, skipFields); l is the Items pointer
MergeIn(m, l, n, skipFields) ==
  IF l = 0 \/ Len(m.lists[l].Items) = 0 THEN m
  ELSE MergeFields(m, PtrFields, n, m.lists[l].Items, skipFields)


(***************************************************************************)
(* The state of a run of Job.Execute.                                      *)
(***************************************************************************)
VARIABLES
  job,                \* the Job's configuration: URLs, DisableNestedStructs,
                      \* and the TypeNameBlacklist the caller supplied
  TypeNameBlacklist,  \* job.TypeNameBlacklist, which the name generator extends
  nodes,              \* heap of JsonSubSchema objects
  props,              \* heap of Properties objects
  lists,              \* heap of Items objects
  all,                \* job.result.SchemaSet.all: URL -> *JsonSubSchema
  used,               \* job.result.SchemaSet.used: URL -> *JsonSubSchema
  TypeNames,          \* job.result.SchemaSet.TypeNames
  stack,              \* the call stack of cacheJsonSchema / postPopulate frames
  urlIdx,             \* position of Execute's loop over job.URLs
  pc,                 \* "execute", "populate", "generate", or how the run ended:
                      \* "done" (a Result), "error" (nil, err), "overflow", "panic"
  err,                \* the error Execute returned, "" for none
  fetched,            \* the documents loadJsonSchema fetched, in order
  ranged,             \* generateGoTypes: the keys of used already ranged over
  typeDefinitions,    \* generateGoTypes: TypeName -> definition
  typeNames,          \* generateGoTypes: the type names collected
  extraPackages,      \* generateGoTypes: packages to import
  rawMessageTypes,    \* generateGoTypes: types needing Marshal/UnmarshalJSON
  SourceCode          \* job.result.SourceCode

memvars == <<nodes, props, lists, all, used, TypeNames, TypeNameBlacklist>>
genvars == <<ranged, typeDefinitions, typeNames, extraPackages, rawMessageTypes,
             SourceCode>>
vars == <<job, memvars, stack, urlIdx, pc, err, fetched, genvars>>

Mem == [nodes |-> nodes, props |-> props, lists |-> lists, all |-> all,
        used |-> used, TypeNames |-> TypeNames, blacklist |-> TypeNameBlacklist,
        crash |-> ""]

Store(m) ==
  /\ nodes' = m.nodes /\ props' = m.props /\ lists' = m.lists
  /\ all' = m.all /\ used' = m.used /\ TypeNames' = m.TypeNames
  /\ TypeNameBlacklist' = m.blacklist

RECURSIVE SeqsUpTo(_, _)
\* the sequences over S of length 1..n
SeqsUpTo(S, n) ==
  IF n = 0 THEN {}
  ELSE {<<x>> : x \in S} \cup
       {Append(s, x) : s \in SeqsUpTo(S, n - 1), x \in S}

\* Execute up to the loop over job.URLs: an empty SchemaSet
Init ==
  /\ job \in [URLs : UNION {SeqsUpTo(g, MaxURLs) : g \in URLGroups},
              DisableNestedStructs : BOOLEAN,
              TypeNameBlacklist : {{<<"Result">>}}]
  /\ TypeNameBlacklist = job.TypeNameBlacklist
  /\ nodes = <<>> /\ props = <<>> /\ lists = <<>>
  /\ all = <<>> /\ used = <<>> /\ TypeNames = {}
  /\ stack = <<>> /\ urlIdx = 1 /\ pc = "execute" /\ err = ""
  /\ fetched = <<>>
  /\ ranged = {} /\ typeDefinitions = <<>> /\ typeNames = <<>>
  /\ extraPackages = {} /\ rawMessageTypes = {} /\ SourceCode = <<>>

Frame(kind, obj) == [kind |-> kind, obj |-> obj, i |-> 0, after |-> FALSE]
Top == stack[Len(stack)]
Pop == SubSeq(stack, 1, Len(stack) - 1)
SetTop(f) == [stack EXCEPT ![Len(stack)] = f]

\* an error return propagating up to Execute, which returns nil, err
Fail(kind) ==
  /\ pc' = "error" /\ err' = kind /\ stack' = <<>>
  /\ UNCHANGED <<job, memvars, urlIdx, fetched, genvars>>

\* the run goes on with memory m and call stack stk, unless it crashed
Continue(m, stk) ==
  /\ IF m.crash # "" THEN pc' = m.crash /\ stack' = <<>> /\ UNCHANGED memvars
     ELSE IF Len(stk) > MaxDepth
          THEN pc' = "overflow" /\ stack' = <<>> /\ UNCHANGED memvars
          ELSE pc' = "populate" /\ stack' = stk /\ Store(m)
  /\ UNCHANGED <<job, urlIdx, err, genvars>>

(***************************************************************************)
(* cacheJsonSchema and loadJsonSchema.                                     *)
(***************************************************************************)
\* http.Get(URL): the fragment is not part of the request; <<>> when the
\* document cannot be fetched
httpGet(URL) ==
  LET path == SubSeq(URL, 1, IndexHash(URL) - 1)
  IN IF Len(path) = 1 /\ path[1] \in DOMAIN Documents THEN <<Documents[path[1]]>>
     ELSE <<>>

\* loadJsonSchema(URL) up to its call of postPopulate: the parsed document
\* with the SourceURL of its root set
loadJsonSchema(m, URL) ==
  LET subSchema == Len(m.nodes) + 1
      m1 == Unmarshal(m, httpGet(URL)[1])
  IN [m |-> [m1 EXCEPT !.nodes[subSchema].SourceURL = sanitizeURL(URL)],
      subSchema |-> subSchema]

\* cacheJsonSchema(url) called with call stack stk: a frame that will return
\* the subschema, below the postPopulate of a document that has to be loaded
cacheJsonSchema(m, stk, url) ==
  LET sanitizedURL == sanitizeURL(url)
      l == loadJsonSchema(m, sanitizedURL)
  IN IF url = <<>> THEN Fail("Empty url in cacheJsonSchema")
     ELSE IF sanitizedURL \in DOMAIN m.all
     THEN /\ Continue(m, Append(stk, Frame("cache", m.all[sanitizedURL])))
          /\ UNCHANGED fetched
     ELSE IF httpGet(sanitizedURL) = <<>> THEN Fail("FetchFailure")
     ELSE /\ Continue(l.m, stk \o <<Frame("cache", l.subSchema),
                                    Frame("sub", l.subSchema)>>)
          /\ fetched' = Append(fetched, SubSeq(sanitizedURL, 1, IndexHash(sanitizedURL) - 1))

\* Execute: j, err := job.cacheJsonSchema(URL)
ExecuteCacheJsonSchema ==
  /\ pc = "execute" /\ urlIdx <= Len(job.URLs)
  /\ cacheJsonSchema(Mem, <<>>, job.URLs[urlIdx])

\* Execute: cacheJsonSchema returned j; job.add(j.TargetSchema())
ExecuteAdd ==
  /\ pc = "populate" /\ Len(stack) = 1 /\ Top.kind = "cache"
  /\ LET m == add(Mem, TargetSchema(nodes, Top.obj, MaxNesting))
     IN IF m.crash # ""
        THEN pc' = m.crash /\ UNCHANGED <<memvars, urlIdx>>
        ELSE /\ Store(m) /\ urlIdx' = urlIdx + 1
             /\ pc' = IF urlIdx = Len(job.URLs) THEN "generate" ELSE "execute"
  /\ stack' = <<>>
  /\ UNCHANGED <<job, err, fetched, genvars>>

\* postPopulate line 674: cacheJsonSchema returned into the $ref resolution
CacheReturn ==
  /\ pc = "populate" /\ Len(stack) > 1 /\ Top.kind = "cache"
  /\ Continue([Mem EXCEPT !.nodes[stack[Len(stack) - 1].obj].RefSubSchema = Top.obj],
              Pop)
  /\ UNCHANGED fetched


(***************************************************************************)
(* (subSchema *JsonSubSchema) postPopulate, in four steps.                 *)
(***************************************************************************)
\* lines 623-631: register in `all', then merge into the combinator branches
PostPopulateEnter ==
  /\ pc = "populate" /\ Top.kind = "sub" /\ Top.i = 0
  /\ LET n == Top.obj
         m1 == [Mem EXCEPT !.all = Put(@, nodes[n].SourceURL, n)]
         m2 == MergeIn(m1, m1.nodes[n].AllOf, n, {"AllOf", "ID"})
         m3 == MergeIn(m2, m2.nodes[n].AnyOf, n, {"AnyOf", "ID"})
         m4 == MergeIn(m3, m3.nodes[n].OneOf, n, {"OneOf", "ID"})
     IN Continue(m4, SetTop([Top EXCEPT !.i = 1]))
  /\ UNCHANGED fetched

\* the array of sub items postPopulate walks, in its order
SubItems == <<[subPath |-> "/definitions", field |-> "Definitions"],
              [subPath |-> "/allOf", field |-> "AllOf"],
              [subPath |-> "/anyOf", field |-> "AnyOf"],
              [subPath |-> "/oneOf", field |-> "OneOf"],
              [subPath |-> "/items", field |-> "Items"],
              [subPath |-> "/properties", field |-> "Properties"]>>

\* the first sub item from position i on that is not nil; 7 when none is
NextSubItem(node, i) ==
  LET S == {k \in i..6 : node[SubItems[k].field] # 0}
  IN IF S = {} THEN 7 ELSE CHOOSE k \in S : \A l \in S : k <= l

\* canPopulate.setSourceURL(url) on the object a field of kind `kind' points to
setSourceURL(m, kind, obj, url) ==
  CASE kind = "props" -> [m EXCEPT !.props[obj].SourceURL = url]
    [] kind = "list" -> [m EXCEPT !.lists[obj].SourceURL = url]
    [] OTHER -> [m EXCEPT !.nodes[obj].SourceURL = url]

FrameKind(kind) == CASE kind = "props" -> "props" [] kind = "list" -> "items"
                     [] OTHER -> "sub"

\* lines 636-651 with postPopulateIfNotNil: the next sub item that is not nil
\* gets its SourceURL and is populated
PostPopulateSubItem ==
  /\ pc = "populate" /\ Top.kind = "sub" /\ Top.i \in 1..6
  /\ LET n == Top.obj
         k == NextSubItem(nodes[n], Top.i)
         s == SubItems[k]
         obj == nodes[n][s.field]
         kind == PtrKind[s.field]
     IN IF k = 7 THEN Continue(Mem, SetTop([Top EXCEPT !.i = 7]))
        ELSE Continue(setSourceURL(Mem, kind, obj, nodes[n].SourceURL \o <<s.subPath>>),
                      Append(SetTop([Top EXCEPT !.i = k + 1]),
                             Frame(FrameKind(kind), obj)))
  /\ UNCHANGED fetched

\* lines 654-666: the inferred type
InferType(node) ==
  IF node.Type # <<>> THEN node.Type
  ELSE IF node.Properties # 0 THEN <<"object">>
  ELSE IF node.Items # 0 THEN <<"array">>
  ELSE <<>>

\* ref := subSchema.Ref; ref != nil && *ref != ""
HasRef(node) == node.Ref # <<>> /\ node.Ref[1] # <<>>

\* lines 653-677: infer the type; a $ref into another document goes through
\* cacheJsonSchema
PostPopulateRef ==
  /\ pc = "populate" /\ Top.kind = "sub" /\ Top.i = 7
  /\ LET n == Top.obj
         m1 == [Mem EXCEPT !.nodes[n].Type = InferType(nodes[n])]
         stk == SetTop([Top EXCEPT !.i = 8])
     IN IF HasRef(nodes[n]) /\ ~HasPrefixHash(nodes[n].Ref[1])
        THEN cacheJsonSchema(m1, stk, nodes[n].Ref[1])
        ELSE Continue(m1, stk) /\ UNCHANGED fetched

\* lines 678-680: the key of `all' a $ref stands for
fullyQualifiedRef(node) ==
  IF ~HasPrefixHash(node.Ref[1]) THEN sanitizeURL(node.Ref[1])
  ELSE SubSeq(node.SourceURL, 1, IndexHash(node.SourceURL) - 1) \o node.Ref[1]

RECURSIVE MarkRequired(_, _, _)
\* lines 689-697: IsRequired of the properties listed in Required
MarkRequired(m, n, required) ==
  IF Len(required) = 0 THEN m
  ELSE IF m.nodes[n].Properties = 0 THEN MarkRequired(m, n, Tail(required))
  ELSE LET ps == m.props[m.nodes[n].Properties].Properties
       IN IF required[1] \in DOMAIN ps
          THEN MarkRequired([m EXCEPT !.nodes[ps[required[1]]].IsRequired = TRUE],
                            n, Tail(required))
          ELSE Crash(m, "panic")

\* lines 699-702: an array of objects becomes a top level type
AddItems(m, n, disableNested) ==
  LET items == m.nodes[n].Items
      t == TargetSchema(m.nodes, items, MaxNesting)
  IN IF disableNested /\ items # 0
     THEN IF t = -1 THEN Crash(m, "overflow")
          ELSE IF m.nodes[t].Properties # 0 THEN add(m, t) ELSE m
     ELSE m

\* lines 678-704: set RefSubSchema from `all', mark the required properties,
\* add the items of an array of objects, return
PostPopulateFinish ==
  /\ pc = "populate" /\ Top.kind = "sub" /\ Top.i = 8
  /\ LET n == Top.obj
         fq == fullyQualifiedRef(nodes[n])
         m1 == IF HasRef(nodes[n])
               THEN [Mem EXCEPT !.nodes[n].RefSubSchema = all[fq]]
               ELSE Mem
         m2 == MarkRequired(m1, n, nodes[n].Required)
         m3 == IF m2.crash # "" THEN m2
               ELSE AddItems(m2, n, job.DisableNestedStructs)
     IN IF HasRef(nodes[n]) /\ fq \notin DOMAIN all
        THEN Fail("Subschema not loaded")
        ELSE Continue(m3, Pop) /\ UNCHANGED fetched

(***************************************************************************)
(* (p *Properties) postPopulate and (items *Items) postPopulate.           *)
(***************************************************************************)
RECURSIVE SetChildURLs(_, _, _)
\* lines 460-465: SourceURL and PropertyName of every property
SetChildURLs(ns, p, names) ==
  IF Len(names) = 0 THEN ns
  ELSE SetChildURLs(
         [ns EXCEPT ![p.Properties[names[1]]].SourceURL =
                       p.SourceURL \o <<"/", names[1]>>,
                    ![p.Properties[names[1]]].PropertyName = <<names[1]>>],
         p, Tail(names))

\* lines 458-468
PropertiesEnter ==
  /\ pc = "populate" /\ Top.kind = "props" /\ Top.i = 0
  /\ LET p == props[Top.obj]
         sorted == SortTokens(DOMAIN p.Properties)
     IN Continue([Mem EXCEPT !.nodes = SetChildURLs(@, p, sorted),
                             !.props[Top.obj].SortedPropertyNames = sorted,
                             !.props[Top.obj].MemberNames = <<>>],
                 SetTop([Top EXCEPT !.i = 1]))
  /\ UNCHANGED fetched

\* lines 469-473: the member name of the next property, whose subschema is
\* populated
PropertiesChild ==
  /\ pc = "populate" /\ Top.kind = "props" /\ Top.i >= 1 /\ ~Top.after
  /\ Top.i <= Len(props[Top.obj].SortedPropertyNames)
  /\ LET p == props[Top.obj]
         j == p.SortedPropertyNames[Top.i]
         members == {p.MemberNames[x] : x \in DOMAIN p.MemberNames}
     IN Continue([Mem EXCEPT !.props[Top.obj].MemberNames =
                               Put(@, j, GoIdentifierFrom(<<j>>, members).identifier)],
                 Append(SetTop([Top EXCEPT !.after = TRUE]),
                        Frame("sub", p.Properties[j])))
  /\ UNCHANGED fetched

\* lines 477-481: with DisableNestedStructs a property that is an object
\* becomes a top level type
PropertiesAfterChild ==
  /\ pc = "populate" /\ Top.kind = "props" /\ Top.after
  /\ LET p == props[Top.obj]
         t == TargetSchema(nodes, p.Properties[p.SortedPropertyNames[Top.i]], MaxNesting)
         m == IF t = -1 THEN Crash(Mem, "overflow")
              ELSE IF nodes[t].Properties # 0 /\ job.DisableNestedStructs
                   THEN add(Mem, t)
                   ELSE Mem
     IN Continue(m, SetTop([Top EXCEPT !.i = @ + 1, !.after = FALSE]))
  /\ UNCHANGED fetched

\* lines 563-568: the SourceURL of the next listed subschema, which is populated
ItemsChild ==
  /\ pc = "populate" /\ Top.kind = "items" /\ ~Top.after
  /\ Top.i < Len(lists[Top.obj].Items)
  /\ LET items == lists[Top.obj]
         j == items.Items[Top.i + 1]
     IN Continue([Mem EXCEPT !.nodes[j].SourceURL =
                               items.SourceURL \o <<"[", Itoa(Top.i), "]">>],
                 Append(SetTop([Top EXCEPT !.after = TRUE]), Frame("sub", j)))
  /\ UNCHANGED fetched

\* line 570: add to schemas so we get a type generated for it
ItemsAfterChild ==
  /\ pc = "populate" /\ Top.kind = "items" /\ Top.after
  /\ Continue(add(Mem, TargetSchema(nodes, lists[Top.obj].Items[Top.i + 1], MaxNesting)),
              SetTop([Top EXCEPT !.i = @ + 1, !.after = FALSE]))
  /\ UNCHANGED fetched

\* the loop of a Properties or Items postPopulate is over: return nil
PopulateReturn ==
  /\ pc = "populate" /\ ~Top.after
  /\ \/ Top.kind = "props" /\ Top.i > Len(props[Top.obj].SortedPropertyNames)
     \/ Top.kind = "items" /\ Top.i >= Len(lists[Top.obj].Items)
  /\ Continue(Mem, Pop)
  /\ UNCHANGED fetched


(***************************************************************************)
(* Code generation: typeDefinition, AsStruct, generateGoTypes.             *)
(* Generated text is a sequence of tokens.  A result carries the comment,  *)
(* the type, the additions to extraPackages and rawMessageTypes, and       *)
(* crash # "" when the computation does not return.                        *)
(***************************************************************************)
RECURSIVE getTypeName(_, _, _)
\* (jsonSubSchema *JsonSubSchema) getTypeName: follows Ref, and dereferences
\* a nil RefSubSchema when Ref is set but was never resolved
getTypeName(ns, n, d) ==
  IF d = 0 THEN [name |-> <<>>, crash |-> "overflow"]
  ELSE IF n = 0 THEN [name |-> <<>>, crash |-> "panic"]
  ELSE IF ns[n].Ref # <<>> THEN getTypeName(ns, ns[n].RefSubSchema, d - 1)
  ELSE [name |-> ns[n].TypeName, crash |-> ""]

RECURSIVE BranchNames(_, _, _)
\* "//   * " + o.getTypeName() for the branches of a combinator list
BranchNames(ns, items, acc) ==
  IF Len(items) = 0 THEN acc
  ELSE LET g == getTypeName(ns, items[1], MaxNesting)
       IN IF g.crash # "" THEN [acc EXCEPT !.crash = g.crash]
          ELSE BranchNames(ns, Tail(items),
                           [acc EXCEPT !.text = @ \o <<"//   * ">> \o g.name])

\* one of the three blocks of lines 331-348: the header and the branch names
\* of the combinator list l, when it is set
Branches(ns, ls, l, header, acc) ==
  IF l = 0 \/ acc.crash # "" THEN acc
  ELSE BranchNames(ns, ls[l].Items, [acc EXCEPT !.text = @ \o header])

\* lines 317-348: the comment of a type: description, enum values and the
\* metadata lines of the combinator lists
TypeComment(h, node) ==
  Branches(h.nodes, h.lists, node.OneOf, <<"// One of:">>,
    Branches(h.nodes, h.lists, node.AnyOf, <<"// Any of:">>,
      Branches(h.nodes, h.lists, node.AllOf, <<"// All of:">>,
        [text |-> (IF node.Description # <<>>
                   THEN <<"// ">> \o node.Description ELSE <<>>)
                  \o (IF node.Enum # <<>>
                      THEN <<"// Possible values:">> \o node.Enum ELSE <<>>),
         crash |-> ""])))

Crashed(how) == [comment |-> <<>>, typ |-> <<>>, ep |-> {}, raw |-> {}, crash |-> how]

Plain(comment, typ) == [Crashed("") EXCEPT !.comment = comment, !.typ = typ]

RECURSIVE typeDefinition(_, _, _, _, _), StructFields(_, _, _, _, _, _)

\* (s *Properties) AsStruct: p is the Properties pointer, possibly nil
AsStruct(h, p, disableNested, d) ==
  IF p = 0 THEN Plain(<<>>, <<"struct {", "}">>)
  ELSE StructFields(h, h.props[p], h.props[p].SortedPropertyNames,
                    disableNested, d, Plain(<<>>, <<"struct {">>))

\* one member of the struct: comment, member name, type and json tag
StructField(node, memberName, j, sub) ==
  sub.comment \o memberName \o <<" ">> \o sub.typ \o <<" json:", j>>
    \o (IF ~node.IsRequired THEN <<",omitempty">> ELSE <<>>) \o <<";">>

\* the loop of AsStruct over SortedPropertyNames, and the closing brace
StructFields(h, p, names, disableNested, d, acc) ==
  IF acc.crash # "" THEN acc
  ELSE IF Len(names) = 0 THEN [acc EXCEPT !.typ = @ \o <<"}">>]
  ELSE StructFields(h, p, Tail(names), disableNested, d,
         (LET sub == typeDefinition(h, p.Properties[names[1]], disableNested, FALSE, d)
          IN IF sub.crash # "" THEN sub
             ELSE [acc EXCEPT
                     !.typ = @ \o StructField(h.nodes[p.Properties[names[1]]],
                                              p.MemberNames[names[1]], names[1], sub),
                     !.ep = @ \cup sub.ep,
                     !.raw = @ \cup sub.raw]))

\* lines 377-400: an object that may have additional properties and is not
\* a plain map
OpenObject(node, comment, struct, sub) ==
  IF node.Properties # 0 /\ struct.crash # "" THEN struct
  ELSE IF node.AdditionalProperties.set /\ node.AdditionalProperties.Properties # 0
  THEN [sub EXCEPT
          !.comment = comment
                        \o (IF node.Properties # 0
                            THEN <<"// Defined properties:">> \o struct.typ ELSE <<>>)
                        \o <<"// Additional properties:">> \o sub.comment \o sub.typ,
          !.typ = <<"json.RawMessage">>,
          !.ep = @ \cup (IF node.Properties # 0 THEN struct.ep ELSE {}),
          !.raw = @ \cup (IF node.Properties # 0 THEN struct.raw ELSE {})]
  ELSE [comment |-> comment
                      \o (IF node.Properties # 0
                          THEN <<"// Defined properties:">> \o struct.typ ELSE <<>>)
                      \o <<"// Additional properties allowed">>,
        typ |-> <<"json.RawMessage">>,
        ep |-> IF node.Properties # 0 THEN struct.ep ELSE {},
        raw |-> IF node.Properties # 0 THEN struct.raw ELSE {},
        crash |-> ""]

\* the switch on typ, lines 358-419; arrayType, struct and sub are the
\* recursive calls the branches make, own is getTypeName()
TypeSwitch(node, comment, typ, disableNested, topLevel, arrayType, struct, sub, own) ==
  CASE typ = <<"array">> ->
         IF node.Items = 0 THEN Plain(comment, <<"[]interface{}">>)
         ELSE [arrayType EXCEPT !.comment = comment, !.typ = <<"[]">> \o @]
    [] typ = <<"object">> ->
         IF /\ node.AdditionalProperties.set
            /\ node.AdditionalProperties.Boolean = <<FALSE>>
         THEN IF ~topLevel /\ disableNested
              THEN [Plain(comment, own.name) EXCEPT !.crash = own.crash]
              ELSE [struct EXCEPT !.comment = comment]
         ELSE IF /\ node.AdditionalProperties.set
                 /\ node.AdditionalProperties.Properties # 0
                 /\ node.Properties = 0
         THEN [sub EXCEPT !.comment = comment \o @, !.typ = <<"map[string]">> \o @]
         ELSE OpenObject(node, comment, struct, sub)
    [] typ = <<"number">> -> Plain(comment, <<"float64">>)
    [] typ = <<"integer">> -> Plain(comment, <<"int64">>)
    [] typ = <<"boolean">> -> Plain(comment, <<"bool">>)
    [] typ = <<"string">> /\ node.Format = <<"date-time">> ->
         [Plain(comment, <<"tcclient.Time">>) EXCEPT !.ep = {"tcclient"}]
    [] OTHER -> Plain(comment, typ)

\* lines 420-444: json.RawMessage types need packages and, at top level,
\* marshalling methods; every type is followed by its source URL
TypeFooter(node, topLevel, r) ==
  IF r.crash # "" THEN Crashed(r.crash)
  ELSE [r EXCEPT
          !.comment = @ \o (IF node.SourceURL # <<>>
                            THEN <<"// See ">> \o node.SourceURL ELSE <<>>),
          !.ep = @ \cup (IF r.typ # <<"json.RawMessage">> THEN {}
                         ELSE IF topLevel THEN {"encoding/json", "errors"}
                         ELSE {"encoding/json"}),
          !.raw = @ \cup (IF r.typ = <<"json.RawMessage">> /\ topLevel
                          THEN {node.TypeName} ELSE {})]

\* the body of typeDefinition for a subschema without RefSubSchema
TypeOf(h, n, node, comment, disableNested, topLevel, d) ==
  IF comment.crash # "" THEN Crashed(comment.crash)
  ELSE TypeFooter(node, topLevel,
         TypeSwitch(node, comment.text,
                    IF node.Type # <<>> THEN node.Type ELSE <<"json.RawMessage">>,
                    disableNested, topLevel,
                    typeDefinition(h, node.Items, disableNested, FALSE, d - 1),
                    AsStruct(h, node.Properties, disableNested, d - 1),
                    typeDefinition(h, node.AdditionalProperties.Properties,
                                   disableNested, TRUE, d - 1),
                    getTypeName(h.nodes, n, MaxNesting)))

\* (jsonSubSchema *JsonSubSchema) typeDefinition(disableNested, topLevel, ...);
\* d is the room left on the call stack
typeDefinition(h, n, disableNested, topLevel, d) ==
  IF d = 0 THEN Crashed("overflow")
  ELSE IF h.nodes[n].RefSubSchema # 0
  THEN typeDefinition(h, h.nodes[n].RefSubSchema, disableNested, topLevel, d - 1)
  ELSE TypeOf(h, n, h.nodes[n], TypeComment(h, h.nodes[n]), disableNested, topLevel, d)

Heap == [nodes |-> nodes, props |-> props, lists |-> lists]

\* what generateGoTypes has built so far
Generated == [ranged |-> ranged, typeDefinitions |-> typeDefinitions,
              typeNames |-> typeNames, extraPackages |-> extraPackages,
              rawMessageTypes |-> rawMessageTypes, crash |-> ""]

\* the body of the loop of generateGoTypes (lines 840-846) for the subschema i
\* at key k of schemaSet.used: name is i.getTypeName(), r the result of
\* i.typeDefinition
GenerateOne(g, k, i, name, r) ==
  IF name.crash # "" THEN [g EXCEPT !.crash = name.crash]
  ELSE IF r.crash # "" THEN [g EXCEPT !.crash = r.crash]
  ELSE [g EXCEPT
          !.ranged = @ \cup {k},
          !.typeDefinitions = Put(@, nodes[i].TypeName,
                                  r.comment \o nodes[i].TypeName \o <<" ">> \o r.typ),
          !.typeNames = Append(@, name.name),
          !.extraPackages = @ \cup r.ep,
          !.rawMessageTypes = @ \cup r.raw]

\* one iteration of the loop of generateGoTypes, for key k
GenerateStep(g, k) ==
  GenerateOne(g, k, used[k], getTypeName(nodes, used[k], MaxNesting),
              typeDefinition(Heap, used[k], job.DisableNestedStructs, TRUE, MaxNesting))

\* the run goes on with g, unless the iteration crashed
StoreGenerated(g) ==
  IF g.crash # "" THEN pc' = g.crash /\ UNCHANGED genvars
  ELSE /\ pc' = pc
       /\ ranged' = g.ranged
       /\ typeDefinitions' = g.typeDefinitions
       /\ typeNames' = g.typeNames
       /\ extraPackages' = g.extraPackages
       /\ rawMessageTypes' = g.rawMessageTypes
       /\ UNCHANGED SourceCode

\* generateGoTypes lines 840-846: one iteration of the loop over the map
\* schemaSet.used, whose order is not specified
GenerateType ==
  /\ pc = "generate"
  /\ \E k \in DOMAIN used \ ranged : StoreGenerated(GenerateStep(Generated, k))
  /\ UNCHANGED <<job, memvars, stack, urlIdx, err, fetched>>

RECURSIVE SortStringSet(_)
\* the sorted slice of the keys of a StringSet
SortStringSet(S) ==
  IF S = {} THEN <<>>
  ELSE LET m == CHOOSE t \in S : \A u \in S : ~StrLess(u, t)
       IN <<m>> \o SortStringSet(S \ {m})

RECURSIVE Definitions(_, _)
\* lines 848-850: content += typeDefinitions[t] for the sorted type names; a
\* missing key yields the empty string
Definitions(defs, sorted) ==
  IF Len(sorted) = 0 THEN <<>>
  ELSE (IF sorted[1] \in DOMAIN defs THEN defs[sorted[1]] ELSE <<>>)
         \o Definitions(defs, Tail(sorted))

\* the orders in which a range over a map with key set S may yield the keys
Orders(S) ==
  {s \in [1..Cardinality(S) -> S] : \A a, b \in 1..Cardinality(S) : s[a] = s[b] => a = b}

\* lines 918-950: the methods of the raw message types, sorted by type
RECURSIVE Implementors(_)
Implementors(sortedRawMessageTypes) ==
  IF Len(sortedRawMessageTypes) = 0 THEN <<>>
  ELSE <<"func (this *">> \o sortedRawMessageTypes[1] \o <<") MarshalJSON",
         "func (this *">> \o sortedRawMessageTypes[1] \o <<") UnmarshalJSON">>
         \o Implementors(Tail(sortedRawMessageTypes))

jsonRawMessageImplementors(raw) == Implementors(SortStringSet(raw))

\* format.Source: the import specs are sorted; a declaration without a name
\* does not parse
formatSource(content) ==
  IF content.syntaxError
  THEN [SourceCode |-> <<>>, err |-> "Formatting error"]
  ELSE [SourceCode |-> <<"package", "import (">> \o SortTokens(Range(content.imports))
                         \o <<")">> \o content.body,
        err |-> ""]

\* generateGoTypes lines 847-851 and Execute lines 887-915: the types in the
\* order of the sorted names, the imports in the order the map yields them,
\* the methods of the raw message types; then format.Source
Source(g, imports) ==
  formatSource([imports |-> imports,
                body |-> <<"type (">>
                           \o Definitions(g.typeDefinitions, SortStrings(g.typeNames))
                           \o <<")">>
                           \o jsonRawMessageImplementors(g.rawMessageTypes),
                syntaxError |->
                  \/ <<>> \in g.rawMessageTypes
                  \/ <<>> \in Range(g.typeNames) /\ <<>> \in DOMAIN g.typeDefinitions])

StoreSource(f) == SourceCode' = f.SourceCode /\ err' = f.err

\* the loop over schemaSet.used is over: the rest of generateGoTypes and of
\* Execute
ExecuteFinish ==
  /\ pc = "generate" /\ ranged = DOMAIN used
  /\ \E imports \in Orders(extraPackages) : StoreSource(Source(Generated, imports))
  /\ pc' = "done"
  /\ UNCHANGED <<job, memvars, stack, urlIdx, fetched, ranged, typeDefinitions,
                 typeNames, extraPackages, rawMessageTypes>>

Next ==
  \/ ExecuteCacheJsonSchema
  \/ ExecuteAdd
  \/ CacheReturn
  \/ PostPopulateEnter
  \/ PostPopulateSubItem
  \/ PostPopulateRef
  \/ PostPopulateFinish
  \/ PropertiesEnter
  \/ PropertiesChild
  \/ PropertiesAfterChild
  \/ ItemsChild
  \/ ItemsAfterChild
  \/ PopulateReturn
  \/ GenerateType
  \/ ExecuteFinish

Spec == Init /\ [][Next]_vars


(***************************************************************************)
(* The claims.                                                             *)
(***************************************************************************)
Nodes == DOMAIN nodes

\* the document part of a schema identifier: what precedes "#"
DocumentOf(url) == SubSeq(url, 1, IndexHash(url) - 1)

\* Execute returned a Result and no error
Succeeded == pc = "done" /\ err = ""

\* the number of positions of sequence s that hold token tok
Count(s, tok) == Cardinality({k \in DOMAIN s : s[k] = tok})

\* C1: a job on a schema whose items or property is a $ref back to the schema
\* itself (documents tree and arr) terminates for both settings of
\* DisableNestedStructs -- it never dies of unbounded recursion -- and the
\* generated type names itself instead of expanding the reference again: no
\* definition nests a struct in a struct.
C1_SelfReferenceTerminates ==
  Range(job.URLs) \subseteq {<<"tree">>, <<"arr">>}
    => /\ pc \notin {"overflow", "panic"}
       /\ \A t \in DOMAIN typeDefinitions : Count(typeDefinitions[t], "struct {") <= 1

\* C2: within one job no document is fetched more than once, whatever the
\* fragments of the URLs and references that point into it.
C2_FetchedAtMostOnce ==
  \A i, j \in DOMAIN fetched : fetched[i] = fetched[j] => i = j

\* C3: two subschemas of the same document that carry the same $ref string
\* and are both resolved have the very same node as RefSubSchema.
C3_SameRefSameNode ==
  \A a, b \in Nodes :
    /\ HasRef(nodes[a]) /\ nodes[a].Ref = nodes[b].Ref
    /\ nodes[a].SourceURL # <<>> /\ nodes[b].SourceURL # <<>>
    /\ DocumentOf(nodes[a].SourceURL) = DocumentOf(nodes[b].SourceURL)
    /\ nodes[a].RefSubSchema # 0 /\ nodes[b].RefSubSchema # 0
    => nodes[a].RefSubSchema = nodes[b].RefSubSchema

\* node n is the subschema at /definitions/a of a copy of document lib: the
\* closed object whose only property is x, not the document root
IsLibDefinitionA(n) ==
  /\ nodes[n].Definitions = 0
  /\ nodes[n].Properties # 0
  /\ DOMAIN props[nodes[n].Properties].Properties = {"x"}

\* C4: a resolved cross-document reference lib#/definitions/a points to the
\* subschema at /definitions/a of document lib, whose identifier is
\* lib#/definitions/a, whether lib was loaded before or is fetched for this
\* reference.
C4_CrossDocumentPointer ==
  \A n \in Nodes :
    nodes[n].Ref = <<RefLibA>> /\ nodes[n].RefSubSchema # 0
    => /\ IsLibDefinitionA(nodes[n].RefSubSchema)
       /\ nodes[nodes[n].RefSubSchema].SourceURL = RefLibA

\* C5: a job succeeds only if every subschema that carries a non-empty $ref
\* has a resolved target; a job that fails returns no source code and has
\* not gone on to a later root URL.
C5_NoDanglingReference ==
  /\ Succeeded => \A n \in Nodes : HasRef(nodes[n]) => nodes[n].RefSubSchema # 0
  /\ pc = "error" => SourceCode = <<>> /\ urlIdx <= Len(job.URLs)

\* C6: in a job whose only root is u1, document lib is loaded only because u1
\* refers to it; the same-document reference #/definitions/a of lib's
\* definition b (the fourth node of a copy of lib) then resolves to the
\* definition a of that copy (its second node).
C6_SameDocumentReference ==
  job.URLs = <<<<"u1">>>> =>
    \A n \in Nodes :
      nodes[n].Ref = <<<<"#", "/definitions", "/", "a">>>> /\ nodes[n].RefSubSchema # 0
      => nodes[n].RefSubSchema = n - 2 /\ IsLibDefinitionA(nodes[n].RefSubSchema)


RECURSIVE GenerateInOrder(_, _)
\* generateGoTypes with the map schemaSet.used yielding its keys in the
\* order `keys'
GenerateInOrder(g, keys) ==
  IF g.crash # "" \/ Len(keys) = 0 THEN g
  ELSE GenerateInOrder(GenerateStep(g, keys[1]), Tail(keys))

RECURSIVE SomeOrder(_)
\* one fixed order of the elements of S
SomeOrder(S) ==
  IF S = {} THEN <<>>
  ELSE <<CHOOSE x \in S : TRUE>> \o SomeOrder(S \ {CHOOSE x \in S : TRUE})

NothingGenerated == [ranged |-> {}, typeDefinitions |-> <<>>, typeNames |-> <<>>,
                     extraPackages |-> {}, rawMessageTypes |-> {}, crash |-> ""]

\* the result of code generation when the maps yield their keys in one
\* fixed order
ReferenceRun == GenerateInOrder(NothingGenerated, SomeOrder(DOMAIN used))

\* C7: whatever order the unordered maps yield their keys in, a job on given
\* documents, root URLs and configuration ends with the same source code and
\* the same outcome as the run in which the maps yield their keys in one
\* fixed order.
C7_Deterministic ==
  /\ pc = "done" =>
       /\ ReferenceRun.crash = ""
       /\ SourceCode = Source(ReferenceRun, SomeOrder(ReferenceRun.extraPackages)).SourceCode
       /\ err = Source(ReferenceRun, SomeOrder(ReferenceRun.extraPackages)).err
  /\ pc \in {"panic", "overflow"} /\ ranged # {} => ReferenceRun.crash # ""

\* C8: after a job, any two distinct nodes that have a TypeName have different
\* TypeNames, and no TypeName is an entry of the caller's TypeNameBlacklist.
C8_UniqueTypeNames ==
  pc = "done" =>
    /\ \A a, b \in Nodes :
         a # b /\ nodes[a].TypeName # <<>> => nodes[a].TypeName # nodes[b].TypeName
    /\ \A a \in Nodes : nodes[a].TypeName \notin job.TypeNameBlacklist

\* C9: a node that has a TypeName keeps it, and after a job no $ref alias
\* (a node with RefSubSchema set) has a TypeName of its own.
C9_AliasesUnnamed ==
  /\ [](pc = "done" =>
          \A a \in Nodes : nodes[a].RefSubSchema # 0 => nodes[a].TypeName = <<>>)
  /\ [][\A a \in Nodes : nodes[a].TypeName # <<>>
                           => nodes'[a].TypeName = nodes[a].TypeName]_vars


\* the value new, after the step, is a copy of the value old of field f
CopiedWhole(f, new, old) ==
  CASE PtrKind[f] = "node" -> new \notin Nodes /\ nodes'[new] = nodes[old]
    [] PtrKind[f] = "props" -> new \notin DOMAIN props /\ props'[new] = props[old]
    [] OTHER -> new = old

\* the value of field f, and the object it points to, are as
\* before the step
Kept(f, new, old) ==
  /\ new = old
  /\ PtrKind[f] = "props" => props'[old] = props[old]
  /\ PtrKind[f] = "node" => nodes'[old] = nodes[old]

\* the schema attributes that MergeIn propagates, the combinator lists and
\* the identity field aside
Attributes == {"AdditionalProperties", "Definitions", "Description", "Format",
               "Items", "Properties", "Ref", "Title", "Type"}

\* the branches of the combinator list F of subschema S are merged right by
\* the step
MergedRight(S, F) ==
  nodes[S][F] # 0 =>
    \A b \in Range(lists[nodes[S][F]].Items) :
      \A f \in Attributes :
        IF ~IsNil(f, nodes[b][f]) THEN Kept(f, nodes'[b][f], nodes[b][f])
        ELSE IF IsNil(f, nodes[S][f]) THEN IsNil(f, nodes'[b][f])
        ELSE CopiedWhole(f, nodes'[b][f], nodes[S][f])

IsMergeStep ==
  /\ pc = "populate" /\ stack # <<>> /\ Top.kind = "sub" /\ Top.i = 0
  /\ pc' = "populate"

\* the branches of the combinator lists of subschema S
BranchesOf(S) ==
  UNION {Range(lists[nodes[S][F]].Items) : F \in {G \in {"AllOf", "AnyOf", "OneOf"} : nodes[S][G] # 0}}

\* C11: the step that merges a schema S into the branches of its combinator
\* lists leaves the three combinator lists and the identity field of every
\* branch as they were before the step.
C11_ListsNotCopied ==
  [][IsMergeStep =>
       \A b \in BranchesOf(Top.obj) :
         /\ nodes'[b].AllOf = nodes[b].AllOf
         /\ nodes'[b].AnyOf = nodes[b].AnyOf
         /\ nodes'[b].OneOf = nodes[b].OneOf
         /\ nodes'[b].ID = nodes[b].ID]_vars

\* C12: the step that merges a schema S into its branches gives every branch
\* without an enum of its own S's enum, and likewise S's required list and
\* S's dependencies.
C12_EnumRequiredDependencies ==
  [][IsMergeStep =>
       \A b \in BranchesOf(Top.obj) :
         /\ nodes[b].Enum = <<>> => nodes'[b].Enum = nodes[Top.obj].Enum
         /\ nodes[b].Required = <<>> => nodes'[b].Required = nodes[Top.obj].Required
         /\ DOMAIN nodes[b].Dependencies = {}
              => nodes'[b].Dependencies = nodes[Top.obj].Dependencies]_vars

\* additionalProperties: false on a schema of type object
IsClosedObject(node) ==
  /\ node.Type = <<"object">>
  /\ node.AdditionalProperties.set
  /\ node.AdditionalProperties.Boolean = <<FALSE>>

\* the member AsStruct writes for property j of subschema n carries omitempty
FieldIsOptional(n, j) ==
  ",omitempty" \in Range(StructField(nodes[props[nodes[n].Properties].Properties[j]],
                                     <<j>>, j, Plain(<<>>, <<"string">>)))

\* C13: after a job, in the record generated for a used closed object the
\* member of a property is required (written without omitempty) exactly when
\* the property's name is in the required list of that object.
C13_RequiredIffListed ==
  pc = "done" =>
    \A k \in DOMAIN used :
      /\ IsClosedObject(nodes[used[k]])
      /\ nodes[used[k]].RefSubSchema = 0
      /\ nodes[used[k]].Properties # 0
      => \A j \in DOMAIN props[nodes[used[k]].Properties].Properties :
           ~FieldIsOptional(used[k], j) <=> j \in Range(nodes[used[k]].Required)

\* C14: a job that completes with a result has no subschema whose required
\* list names a property that the subschema does not define.
C14_RequiredWithoutProperty ==
  Succeeded =>
    \A n \in Nodes : \A r \in Range(nodes[n].Required) :
      /\ nodes[n].Properties # 0
      /\ r \in DOMAIN props[nodes[n].Properties].Properties

\* the names of the properties a subschema declares
DeclaredProperties(node) ==
  IF node.Properties = 0 THEN {} ELSE DOMAIN props[node.Properties].Properties

\* the positions of the members of the outermost struct of a type
OwnMembers(typ) ==
  {i \in 1..Len(typ) :
     /\ typ[i] = " json:"
     /\ Cardinality({k \in 1..i : typ[k] = "struct {"})
          = Cardinality({k \in 1..i : typ[k] = "}"}) + 1}

\* typ is a struct whose members are exactly the properties `names'
IsRecordOf(typ, names) ==
  /\ Len(typ) >= 2 /\ typ[1] = "struct {" /\ typ[Len(typ)] = "}"
  /\ {typ[i + 1] : i \in OwnMembers(typ)} = names
  /\ Cardinality(OwnMembers(typ)) = Cardinality(names)

\* the three cases of an object schema, r being what typeDefinition returns
\* for node n
ObjectCases(n, node, topLevel, r) ==
  IF IsClosedObject(node)
  THEN \/ IsRecordOf(r.typ, DeclaredProperties(node))
       \/ ~topLevel /\ job.DisableNestedStructs /\ r.typ = node.TypeName
  ELSE IF /\ node.Properties = 0 /\ node.AdditionalProperties.set
          /\ node.AdditionalProperties.Properties # 0
  THEN \E t \in BOOLEAN :
         r.typ = <<"map[string]">>
                   \o typeDefinition(Heap, node.AdditionalProperties.Properties,
                                     job.DisableNestedStructs, t, MaxNesting).typ
  ELSE /\ r.typ = <<"json.RawMessage">>
       /\ node.Properties # 0 =>
            \E i \in DOMAIN r.comment :
              /\ r.comment[i] = "// Defined properties:"
              /\ \A j \in DeclaredProperties(node) :
                   \E k \in i..Len(r.comment) - 1 :
                     r.comment[k] = " json:" /\ r.comment[k + 1] = j

\* C15: once the documents are loaded, typeDefinition maps every object
\* schema (one without RefSubSchema) by three exclusive cases: closed objects
\* give a record of exactly the declared properties (below the top level with
\* DisableNestedStructs, the name of the schema's type), objects without
\* properties and with a schema for additionalProperties give a map of that
\* schema's type, every other object gives json.RawMessage with the declared
\* properties in the comment.
C15_ObjectMapping ==
  pc \in {"generate", "done"} =>
    \A n \in Nodes : \A topLevel \in BOOLEAN :
      /\ nodes[n].Type = <<"object">>
      /\ nodes[n].RefSubSchema = 0
      /\ typeDefinition(Heap, n, job.DisableNestedStructs, topLevel, MaxNesting).crash = ""
      => ObjectCases(n, nodes[n], topLevel,
                     typeDefinition(Heap, n, job.DisableNestedStructs, topLevel, MaxNesting))

\* the used subschemas whose type, generated at top level, is json.RawMessage
OpaqueUsed ==
  {n \in {used[k] : k \in DOMAIN used} :
     typeDefinition(Heap, n, job.DisableNestedStructs, TRUE, MaxNesting).typ
       = <<"json.RawMessage">>}

\* C16: after code generation rawMessageTypes is exactly the set of the
\* TypeNames of the used subschemas whose own type is json.RawMessage; it
\* holds no empty name.
C16_RawMessageTypes ==
  pc = "done" =>
    /\ rawMessageTypes = {nodes[n].TypeName : n \in OpaqueUsed}
    /\ <<>> \notin rawMessageTypes

\* C17: with DisableNestedStructs, after a successful job every closed object
\* schema of the loaded documents is a used subschema with a TypeName, and no
\* generated type definition has a struct inside its struct.
C17_ClosedObjectsPromoted ==
  Succeeded /\ job.DisableNestedStructs =>
    /\ \A n \in Nodes :
         IsClosedObject(nodes[n]) /\ nodes[n].RefSubSchema = 0
         => /\ n \in {used[k] : k \in DOMAIN used}
            /\ nodes[n].TypeName # <<>>
    /\ \A t \in DOMAIN typeDefinitions : Count(typeDefinitions[t], "struct {") <= 1

\* the subschemas json.Unmarshal built for the document whose root is `root'
DocumentNodes(root) ==
  root .. root + Len(Documents[DocumentOf(nodes[root].SourceURL)[1]].nodes) - 1

\* the postPopulate of a document that loadJsonSchema fetched for a $ref
\* returns: its frame lies on the frame of the cacheJsonSchema that loaded it,
\* which was called from another postPopulate
IsLoadedReturn ==
  /\ pc = "populate" /\ Len(stack) > 2
  /\ Top.kind = "sub" /\ Top.i = 8
  /\ stack[Len(stack) - 1].kind = "cache"
  /\ stack[Len(stack) - 1].obj = Top.obj
  /\ pc' = "populate"

\* C18: when the postPopulate of a document that was fetched for a
\* cross-document $ref returns, so before the resolution of the reference
\* returns, every subschema of that document is registered in `all' under its
\* SourceURL.
C18_RegisteredBeforeReturn ==
  [][IsLoadedReturn =>
       \A i \in DocumentNodes(Top.obj) :
         /\ nodes'[i].SourceURL \in DOMAIN all'
         /\ all'[nodes'[i].SourceURL] = i]_vars

\* a second MergeIn of subschema n into list l leaves memory m, which a first
\* MergeIn produced, as it is
SecondMergeInKeeps(m, l, n, skipFields) == MergeIn(m, l, n, skipFields) = m

\* C19: MergeIn is idempotent: for every subschema and each of its combinator
\* lists, in every memory the job reaches, applying MergeIn a second time
\* with the same parent to the same branches leaves every object as the
\* first application left it and allocates nothing.
C19_MergeInIdempotent ==
  \A S \in Nodes : \A F \in {"AllOf", "AnyOf", "OneOf"} :
    nodes[S][F] # 0 =>
      SecondMergeInKeeps(MergeIn(Mem, nodes[S][F], S, {F, "ID"}),
                         nodes[S][F], S, {F, "ID"})

\* C19 witness: postPopulate has just merged a subschema with properties and a
\* description into the branches of its allOf list, a branch has received the
\* description and a copy of the properties, and a second MergeIn changes
\* nothing
C19_MergedTwice ==
  /\ pc = "populate" /\ stack # <<>> /\ Top.kind = "sub" /\ Top.i = 1
  /\ nodes[Top.obj].AllOf # 0
  /\ nodes[Top.obj].Description # <<>> /\ nodes[Top.obj].Properties # 0
  /\ \E b \in Range(lists[nodes[Top.obj].AllOf].Items) :
       /\ nodes[b].Description = nodes[Top.obj].Description
       /\ nodes[b].Properties \notin {0, nodes[Top.obj].Properties}
  /\ MergeIn(Mem, nodes[Top.obj].AllOf, Top.obj, {"AllOf", "ID"}) = Mem

\* C20: every step that merges a subschema into the branches of its
\* combinator lists finds the branches without a TypeName, so no branch is
\* named first and merged into afterwards; and once generateGoTypes runs
\* typeDefinition no subschema changes any more: every TypeName was assigned
\* before.
C20_MergeBeforeNaming ==
  [][/\ IsMergeStep => \A b \in BranchesOf(Top.obj) : nodes[b].TypeName = <<>>
     /\ pc = "generate" => nodes' = nodes]_vars

\* url is the identifier of an entry of the definitions of a subschema that
\* postPopulate has registered
IsDefinitionsEntry(url) ==
  \E S \in Nodes :
    /\ nodes[S].Definitions # 0
    /\ nodes[S].SourceURL \in DOMAIN all /\ all[nodes[S].SourceURL] = S
    /\ \E k \in DOMAIN props[nodes[S].Definitions].Properties :
         url = nodes[S].SourceURL \o <<"/definitions", "/", k>>

\* C21: when postPopulate resolves a $ref into its own document that points
\* at an entry of a schema's definitions, the entry is registered in `all',
\* so the reference does not fail as not loaded; references from one
\* definitions entry to another are included.
C21_DefinitionsBeforeRefs ==
  /\ pc = "populate" /\ stack # <<>> /\ Top.kind = "sub" /\ Top.i = 8
  /\ HasRef(nodes[Top.obj]) /\ HasPrefixHash(nodes[Top.obj].Ref[1])
  /\ IsDefinitionsEntry(fullyQualifiedRef(nodes[Top.obj]))
  => fullyQualifiedRef(nodes[Top.obj]) \in DOMAIN all

\* every entry of map set is stored under the SourceURL of its subschema
OwnIdentifiers(set) == \A k \in DOMAIN set : nodes[set[k]].SourceURL = k

\* C22: when Execute has returned, every entry of `all' and of `used' is
\* stored under its subschema's own SourceURL, so no subschema is held under
\* two keys of `all' or of `used'.
C22_OwnIdentifier ==
  pc = "done" =>
    /\ OwnIdentifiers(all) /\ OwnIdentifiers(used)
    /\ \A k1, k2 \in DOMAIN all : all[k1] = all[k2] => k1 = k2
    /\ \A k1, k2 \in DOMAIN used : used[k1] = used[k2] => k1 = k2

\* C23: after a successful job no subschema in `used' is a $ref alias: every
\* used subschema has RefSubSchema unset, because add is only applied to the
\* end of a reference chain.
C23_UsedAreTargets ==
  Succeeded => \A k \in DOMAIN used : nodes[used[k]].RefSubSchema = 0

\* no subschema of the documents loaded so far has a $ref
NoRefs == \A n \in Nodes : nodes[n].Ref = <<>>

\* C24: populating documents that contain no $ref never dies of unbounded
\* recursion: no step of postPopulate on such documents ends the run with a
\* stack overflow, whatever combinator lists the schemas own.
C24_PopulateTerminates ==
  [][(pc = "populate" /\ NoRefs) => pc' # "overflow"]_vars

=============================================================================
